---- MODULE Spec2Model ----
(***************************************************************************)
(* Model of the RoboShen voice-session controller: the React hook          *)
(* useRoboShen (src/unnamed/part_001) together with the caller that ships  *)
(* with it (App, src/App.tsx lines 1-88).                                  *)
(*                                                                         *)
(* React state (sessionState, error, isThinking, isSpeaking, history) is   *)
(* held in variables of the same name; a setter call writes the variable   *)
(* and marks the component dirty.  A closure created by a render sees the  *)
(* state of that render: renderedState is the sessionState captured by     *)
(* the startSession closure of the last render.  Refs are variables named  *)
(* after the ref; the value 0 (NULL) stands for null.  Browser objects     *)
(* (audio contexts, microphone streams, channels, script processors) are   *)
(* identified by the number of the attempt that created them.              *)
(***************************************************************************)
EXTENDS Integers, Sequences, FiniteSets, TLC

\* ---------------------------------------------------------------- bounds
MaxAttempts == 2     \* startSession calls that get as far as creating audio contexts
MaxEvents == 1       \* tool-call events delivered
MaxChunks == 2       \* audio chunks delivered
MaxTime == 3         \* the playback clock stops here
MaxFrames == 2       \* audio frames captured in a behaviour
MaxMsgLen == 2       \* words in the message of a classified fault

NULL == 0
Attempts == 1..MaxAttempts
Events == 1..MaxEvents
Chunks == 1..MaxChunks

\* Inputs of the environment.
SuspendBudgets == {1}    \* startSession calls whose contexts start suspended
ClickBudgets == {1}      \* clicks on the buttons of the error overlay
Durations == {1, 2}      \* duration of an audio chunk
\* The invocations of a tool-call event.
Batches == {<<"generateContent">>, <<"generateImage">>, <<"other">>,
            <<"generateContent", "generateImage">>, <<"other", "generateContent">>,
            <<"generateImage", "other">>}

\* Playback times are counted in units of 0.1 s, so that the epsilon of the
\* speaking poll (0.1 s) is one unit.
SPEAKING_EPSILON == 1

VARIABLES
    sessionState,           \* useState: "IDLE" | "CONNECTING" | "CONNECTED" | "ERROR"
    error,                  \* useState: NoError or an AppError record
    isThinking,             \* useState
    isSpeaking,             \* useState
    history,                \* useState: sequence of messages, newest first
    renderedState,          \* sessionState captured by the closures of the last render
    renderedError,          \* whether the last render showed the error overlay
    dirty,                  \* a setter ran since the last render
    sessionStateRef,        \* mirror of sessionState, written by an effect
    isClosedRef,
    inputAudioContextRef, outputAudioContextRef, outputGainNodeRef,
    scriptProcessorRef, streamRef, sessionPromiseRef,
    nextStartTimeRef,       \* the playback cursor
    audioSourcesRef,        \* the live set of playback sources
    speakingCheckIntervalRef,
    nAttempts,              \* startSession calls that created their audio contexts
    pc,                     \* per attempt: where its startSession is suspended
    awaitCtx,               \* per attempt: the output context whose resume() it awaits
    inCtx, outCtx,          \* per context: "none" | "suspended" | "running" | "closed"
    stream,                 \* per stream: "none" | "live" | "stopped"
    channel,                \* per channel: "none" | "connecting" | "open" | "errored" | "closed" | "rejected"
    proc,                   \* per script processor: "none" | "connected" | "disconnected"
    retryTimer,             \* "none", or the sessionState captured by the pending setTimeout
    fault,                  \* the raw fault last handed to mapErrorToAppError
    raised,                 \* places where an exception escaped uncaught
    nEvents,                \* tool-call events delivered so far
    calls,                  \* per tool-call event: its handleMessage invocation, with the
                            \* outcomes of the model calls it has awaited so far
    sent,                   \* tool responses sent, in order
    pending,                \* per channel: then-callbacks waiting for its promise to resolve
    nChunks,                \* audio chunks delivered so far
    chunk,                  \* per audio chunk: its handleMessage invocation and its source
    scheduled,              \* the chunks given a start time, in the order of scheduling
    timers,                 \* the interval timers that are active
    clock,                  \* per output context: currentTime
    greeting,               \* per attempt: the detached greeting task of its startSession(true)
    sleeping,               \* the caller's appState is SLEEPING
    nFrames,                \* audio frames captured so far
    realtimeSent,           \* the frames sent with sendRealtimeInput, in order
    realtimePending,        \* per channel: the frames waiting on its connect promise
    cleanedUp,              \* cleanup has run and no startSession has passed its guard since
    budget                  \* what the environment may still do (fixed by Init, then used up)

renderVars == <<renderedState, renderedError, sessionStateRef>>
ctxVars == <<inCtx, inputAudioContextRef, outCtx, outputAudioContextRef, outputGainNodeRef>>
capVars == <<scriptProcessorRef, proc, stream, streamRef>>
playVars == <<chunk, audioSourcesRef, nextStartTimeRef, timers, speakingCheckIntervalRef,
              isSpeaking>>
toolVars == <<isThinking, history, nEvents, calls, sent, pending>>
\* what cleanup writes
cleanupVars == <<ctxVars, capVars, playVars, sessionPromiseRef, cleanedUp>>
\* what startSession writes besides
startVars == <<sessionState, error, isClosedRef, nAttempts, pc, awaitCtx, fault>>
greetVars == <<greeting, sleeping>>
\* what the lifecycle actions leave alone
frameVars == <<nFrames, realtimeSent, realtimePending>>
restVars == <<toolVars, raised, nChunks, scheduled, clock, greetVars, frameVars>>
vars == <<renderVars, dirty, cleanupVars, startVars, channel, retryTimer, restVars, budget>>

\* ------------------------------------------------------ ErrorClassifier
\* A fault is what a catch clause receives.  isError is `e instanceof Error`;
\* message is e.message as a sequence of words.
Words == {"permission", "Permission", "denied", "API", "api", "Key", "key", "400", "403",
          "network", "CORS", "cors", "device", "boom"}

Names == {"Error", "NotAllowedError", "NotFoundError", "TypeError"}

ToLowerCase(w) ==
    CASE w = "Permission" -> "permission"
      [] w = "API" -> "api"
      [] w = "Key" -> "key"
      [] w = "CORS" -> "cors"
      [] OTHER -> w

LowerCaseMessage(m) == [i \in 1..Len(m) |-> ToLowerCase(m[i])]

\* String.prototype.includes, on sequences of words: sig occurs contiguously in m.
Includes(m, sig) ==
    \E i \in 1..(Len(m) - Len(sig) + 1) : SubSeq(m, i, i + Len(sig) - 1) = sig

NoError == [title |-> "none", message |-> <<>>, steps |-> <<>>]

TitleUnknown == "an unknown error occurred"
TitlePermission == "microphone access required"
TitleConnection == "server connection error"
TitleDevice == "no microphone found"
TitleDropped == "connection dropped"

PermissionSignature(e) ==
    Includes(LowerCaseMessage(e.message), <<"permission">>) \/ e.name = "NotAllowedError"

ConnectionSignature(e) ==
    LET m == LowerCaseMessage(e.message)
    IN  \/ Includes(m, <<"api", "key">>)
        \/ Includes(m, <<"400">>)
        \/ Includes(m, <<"403">>)
        \/ Includes(m, <<"network">>)
        \/ Includes(m, <<"cors">>)

DeviceSignature(e) ==
    Includes(LowerCaseMessage(e.message), <<"device">>) \/ e.name = "NotFoundError"

\* mapErrorToAppError with its last branch forgotten: the default message is
\* kept where the fault's own message belongs.
mapErrorKeepsDefault(e) ==
    IF ~e.isError \/ ~(PermissionSignature(e) \/ ConnectionSignature(e) \/ DeviceSignature(e))
    THEN [title |-> TitleUnknown, message |-> <<"please try again">>, steps |-> <<>>]
    ELSE IF PermissionSignature(e)
    THEN [title |-> TitlePermission,
          message |-> <<"RoboShen needs your permission to use the microphone">>,
          steps |-> <<"click Allow in the prompt", "refresh the page",
                      "enable microphone access in the site settings">>]
    ELSE IF ConnectionSignature(e)
    THEN [title |-> TitleConnection,
          message |-> <<"could not reach the AI service">>,
          steps |-> <<"check your internet connection",
                      "the service may be temporarily unavailable",
                      "the API key may be invalid or expired">>]
    ELSE [title |-> TitleDevice,
          message |-> <<"no audio input device was detected">>,
          steps |-> <<"make sure the microphone is connected",
                      "unplug and replug an external microphone",
                      "update your audio drivers">>]

mapErrorToAppError(e) ==
    IF ~e.isError
    THEN [title |-> TitleUnknown, message |-> <<"please try again">>, steps |-> <<>>]
    ELSE IF PermissionSignature(e)
    THEN [title |-> TitlePermission,
          message |-> <<"RoboShen needs your permission to use the microphone">>,
          steps |-> <<"click Allow in the prompt", "refresh the page",
                      "enable microphone access in the site settings">>]
    ELSE IF ConnectionSignature(e)
    THEN [title |-> TitleConnection,
          message |-> <<"could not reach the AI service">>,
          steps |-> <<"check your internet connection",
                      "the service may be temporarily unavailable",
                      "the API key may be invalid or expired">>]
    ELSE IF DeviceSignature(e)
    THEN [title |-> TitleDevice,
          message |-> <<"no audio input device was detected">>,
          steps |-> <<"make sure the microphone is connected",
                      "unplug and replug an external microphone",
                      "update your audio drivers">>]
    ELSE [title |-> TitleUnknown, message |-> e.message, steps |-> <<>>]


Err(n, m) == [isError |-> TRUE, name |-> n, message |-> m]
NoFault == [isError |-> FALSE, name |-> "none", message |-> <<>>]

\* The faults the collaborators of startSession produce.
CtorFaults == {Err("Error", <<"An", "API", "Key", "must", "be", "set">>)}
ResumeFaults == {Err("InvalidStateError", <<"cannot", "resume", "a", "closed", "context">>)}
GumFaults == {Err("NotAllowedError", <<"Permission", "denied">>)}
NullDeref == Err("TypeError", <<"Cannot", "read", "properties", "of", "null">>)

DroppedError ==
    [title |-> TitleDropped,
     message |-> <<"the connection to the AI server was lost">>,
     steps |-> <<"check your internet connection", "click Retry to continue">>]

\* A tool-call event and an audio chunk that have not arrived yet.
NoCall == [batch |-> <<>>, idx |-> 0, ch |-> NULL, outs |-> <<>>]
NoChunk == [dur |-> 0, st |-> "none", src |-> "none", ctx |-> NULL, start |-> 0]

\* ------------------------------------------------------------- cleanup
Close(ctx, ref) ==
    IF ref # NULL /\ ctx[ref] # "closed" THEN [ctx EXCEPT ![ref] = "closed"] ELSE ctx

\* A cleanup that leaves the playback cursor where it is.
cleanupKeepsCursor(inC, outC) ==
    /\ proc' = IF scriptProcessorRef # NULL
               THEN [proc EXCEPT ![scriptProcessorRef] = "disconnected"] ELSE proc
    /\ scriptProcessorRef' = NULL
    /\ outputGainNodeRef' = NULL
    /\ inCtx' = Close(inC, inputAudioContextRef)
    /\ inputAudioContextRef' = NULL
    /\ outCtx' = Close(outC, outputAudioContextRef)
    /\ outputAudioContextRef' = NULL
    /\ stream' = IF streamRef # NULL THEN [stream EXCEPT ![streamRef] = "stopped"] ELSE stream
    /\ streamRef' = NULL
    /\ chunk' = [k \in Chunks |->
                    IF k \in audioSourcesRef THEN [chunk[k] EXCEPT !.src = "stopped"]
                    ELSE chunk[k]]
    /\ audioSourcesRef' = {}
    /\ nextStartTimeRef' = nextStartTimeRef
    /\ timers' = timers \ {speakingCheckIntervalRef}
    /\ speakingCheckIntervalRef' = NULL
    /\ isSpeaking' = FALSE
    /\ sessionPromiseRef' = NULL
    /\ dirty' = TRUE
    /\ cleanedUp' = TRUE

\* cleanup(), run when the contexts are in the states inC and outC.
cleanupAfter(inC, outC) ==
    /\ proc' = IF scriptProcessorRef # NULL
               THEN [proc EXCEPT ![scriptProcessorRef] = "disconnected"] ELSE proc
    /\ scriptProcessorRef' = NULL
    /\ outputGainNodeRef' = NULL
    /\ inCtx' = Close(inC, inputAudioContextRef)
    /\ inputAudioContextRef' = NULL
    /\ outCtx' = Close(outC, outputAudioContextRef)
    /\ outputAudioContextRef' = NULL
    /\ stream' = IF streamRef # NULL THEN [stream EXCEPT ![streamRef] = "stopped"] ELSE stream
    /\ streamRef' = NULL
    /\ chunk' = [k \in Chunks |->
                    IF k \in audioSourcesRef THEN [chunk[k] EXCEPT !.src = "stopped"]
                    ELSE chunk[k]]
    /\ audioSourcesRef' = {}
    /\ nextStartTimeRef' = 0
    /\ timers' = timers \ {speakingCheckIntervalRef}
    /\ speakingCheckIntervalRef' = NULL
    /\ isSpeaking' = FALSE
    /\ sessionPromiseRef' = NULL
    /\ dirty' = TRUE
    /\ cleanedUp' = TRUE

cleanup == cleanupAfter(inCtx, outCtx)

\* -------------------------------------------------------- startSession
\* The catch clause of startSession, for attempt a and fault f.
CatchAfter(a, f, inC, outC) ==
    /\ error' = mapErrorToAppError(f)
    /\ fault' = f
    /\ sessionState' = "ERROR"
    /\ pc' = [pc EXCEPT ![a] = "done"]
    /\ cleanupAfter(inC, outC)

Catch(a, f) == CatchAfter(a, f, inCtx, outCtx)

\* The guard of startSession, on the sessionState its closure captured.
StartPasses(cs) == ~(cs = "CONNECTING" \/ cs = "CONNECTED")

\* A call of the startSession closure that captured sessionState cs, up to its
\* first await (or to its return).  No setter runs when the guard rejects the
\* call: dirty is then left as d.
StartSession(cs, d) ==
    IF ~StartPasses(cs)
    THEN UNCHANGED <<startVars, cleanupVars, budget>> /\ dirty' = d
    ELSE /\ isClosedRef' = FALSE
         /\ awaitCtx' = awaitCtx
         /\ \/ /\ budget.faults
               /\ \E f \in CtorFaults :
                    /\ error' = mapErrorToAppError(f)
                    /\ fault' = f
                    /\ sessionState' = "ERROR"
                    /\ cleanup
               /\ UNCHANGED <<nAttempts, pc, budget>>
            \/ /\ nAttempts < budget.attempts
               /\ nAttempts' = nAttempts + 1
               /\ LET a == nAttempts + 1
                  IN  \E st \in {"suspended", "running"} :
                        /\ st = "suspended" => budget.suspends > 0
                        /\ budget' = IF st = "suspended"
                                      THEN [budget EXCEPT !.suspends = @ - 1] ELSE budget
                        /\ error' = NoError
                        /\ fault' = NoFault
                        /\ sessionState' = "CONNECTING"
                        /\ inCtx' = [inCtx EXCEPT ![a] = st]
                        /\ outCtx' = [outCtx EXCEPT ![a] = st]
                        /\ inputAudioContextRef' = a
                        /\ outputAudioContextRef' = a
                        /\ outputGainNodeRef' = a
                        /\ pc' = [pc EXCEPT ![a] = IF st = "suspended" THEN "resumeIn"
                                                   ELSE "gum"]
                        /\ cleanedUp' = FALSE
                        /\ dirty' = TRUE
                        /\ UNCHANGED <<capVars, playVars, sessionPromiseRef>>

\* await inputAudioContextRef.current.resume() settles.
ResumeIn(a) ==
    /\ pc[a] = "resumeIn"
    /\ nAttempts' = nAttempts /\ isClosedRef' = isClosedRef
    /\ \/ /\ budget.faults
          /\ \E f \in ResumeFaults : Catch(a, f)
          /\ awaitCtx' = awaitCtx
       \/ /\ inCtx[a] # "closed"
          /\ LET inC == [inCtx EXCEPT ![a] = "running"]
             IN  IF outputAudioContextRef = NULL
                 THEN CatchAfter(a, NullDeref, inC, outCtx) /\ awaitCtx' = awaitCtx
                 ELSE /\ inCtx' = inC
                      /\ IF outCtx[outputAudioContextRef] = "suspended"
                         THEN /\ pc' = [pc EXCEPT ![a] = "resumeOut"]
                              /\ awaitCtx' = [awaitCtx EXCEPT ![a] = outputAudioContextRef]
                         ELSE /\ pc' = [pc EXCEPT ![a] = "gum"]
                              /\ awaitCtx' = awaitCtx
                      /\ UNCHANGED <<sessionState, error, fault, outCtx, inputAudioContextRef,
                                     outputAudioContextRef, outputGainNodeRef, capVars,
                                     playVars, sessionPromiseRef, cleanedUp, dirty>>
    /\ UNCHANGED <<renderVars, channel, retryTimer, restVars, budget>>

\* await outputAudioContextRef.current.resume() settles.
ResumeOut(a) ==
    /\ pc[a] = "resumeOut"
    /\ nAttempts' = nAttempts /\ isClosedRef' = isClosedRef /\ awaitCtx' = awaitCtx
    /\ \/ budget.faults /\ \E f \in ResumeFaults : Catch(a, f)
       \/ /\ outCtx[awaitCtx[a]] # "closed"
          /\ outCtx' = [outCtx EXCEPT ![awaitCtx[a]] = "running"]
          /\ pc' = [pc EXCEPT ![a] = "gum"]
          /\ UNCHANGED <<sessionState, error, fault, inCtx, inputAudioContextRef,
                         outputAudioContextRef, outputGainNodeRef, capVars, playVars,
                         sessionPromiseRef, cleanedUp, dirty>>
    /\ UNCHANGED <<renderVars, channel, retryTimer, restVars, budget>>

\* await navigator.mediaDevices.getUserMedia() settles; on success the channel
\* is opened with live.connect(), which is not awaited.
GetUserMedia(a) ==
    /\ pc[a] = "gum"
    /\ nAttempts' = nAttempts /\ isClosedRef' = isClosedRef /\ awaitCtx' = awaitCtx
    /\ \/ /\ budget.faults
          /\ \E f \in GumFaults : Catch(a, f)
          /\ channel' = channel
       \/ /\ stream' = [stream EXCEPT ![a] = "live"]
          /\ streamRef' = a
          /\ sessionPromiseRef' = a
          /\ channel' = [channel EXCEPT ![a] = "connecting"]
          /\ pc' = [pc EXCEPT ![a] = "done"]
          /\ UNCHANGED <<sessionState, error, fault, ctxVars, scriptProcessorRef, proc,
                         playVars, cleanedUp, dirty>>
    /\ UNCHANGED <<renderVars, retryTimer, restVars, budget>>


\* ------------------------------------------------- channel callbacks
\* onopen without its two guards.
OnOpenUnguarded(c) ==
    /\ channel[c] = "connecting"
    /\ channel' = [channel EXCEPT ![c] = "open"]
    /\ sent' = sent \o pending[c]
    /\ pending' = [pending EXCEPT ![c] = <<>>]
    /\ realtimeSent' = realtimeSent \o realtimePending[c]
    /\ realtimePending' = [realtimePending EXCEPT ![c] = <<>>]
    /\ sessionState' = "CONNECTED"
    /\ dirty' = TRUE
    /\ scriptProcessorRef' = c
    /\ proc' = [proc EXCEPT ![c] = "connected"]
    /\ UNCHANGED <<renderVars, ctxVars, stream, streamRef, playVars, sessionPromiseRef,
                   cleanedUp, error, isClosedRef, nAttempts, pc, awaitCtx, fault,
                   retryTimer, isThinking, history, nEvents, calls, raised, nChunks,
                   scheduled, clock, greetVars, nFrames, budget>>

\* callbacks.onopen of channel c; the promise of live.connect() resolves with it.
OnOpen(c) ==
    /\ channel[c] = "connecting"
    /\ channel' = [channel EXCEPT ![c] = "open"]
    /\ sent' = sent \o pending[c]
    /\ pending' = [pending EXCEPT ![c] = <<>>]
    /\ realtimeSent' = realtimeSent \o realtimePending[c]
    /\ realtimePending' = [realtimePending EXCEPT ![c] = <<>>]
    /\ IF \/ isClosedRef
          \/ inputAudioContextRef = NULL
          \/ streamRef = NULL
          \/ inCtx[inputAudioContextRef] = "closed"
       THEN UNCHANGED <<sessionState, scriptProcessorRef, proc, dirty>>
       ELSE /\ sessionState' = "CONNECTED"
            /\ dirty' = TRUE
            /\ scriptProcessorRef' = c
            /\ proc' = [proc EXCEPT ![c] = "connected"]
    /\ UNCHANGED <<renderVars, ctxVars, stream, streamRef, playVars, sessionPromiseRef,
                   cleanedUp, error, isClosedRef, nAttempts, pc, awaitCtx, fault,
                   retryTimer, isThinking, history, nEvents, calls, raised, nChunks,
                   scheduled, clock, greetVars, nFrames, budget>>

\* callbacks.onerror of channel c.
OnError(c) ==
    /\ channel[c] \in {"connecting", "open"}
    /\ channel' = [channel EXCEPT ![c] = "errored"]
    /\ error' = DroppedError
    /\ fault' = NoFault
    /\ sessionState' = "ERROR"
    /\ dirty' = TRUE
    /\ UNCHANGED <<renderVars, cleanupVars, isClosedRef, nAttempts, pc, awaitCtx,
                   retryTimer, restVars, budget>>

\* An onclose that also drops the held error.
OnCloseClearsError(c) ==
    /\ channel[c] \in {"connecting", "open", "errored"}
    /\ channel' = [channel EXCEPT ![c] = "closed"]
    /\ isClosedRef' = TRUE
    /\ sessionState' = IF sessionStateRef # "ERROR" THEN "IDLE" ELSE sessionState
    /\ error' = NoError
    /\ cleanup
    /\ UNCHANGED <<renderVars, nAttempts, pc, awaitCtx, fault, retryTimer,
                   restVars, budget>>

\* callbacks.onclose of channel c.
OnClose(c) ==
    /\ channel[c] \in {"connecting", "open", "errored"}
    /\ channel' = [channel EXCEPT ![c] = "closed"]
    /\ isClosedRef' = TRUE
    /\ sessionState' = IF sessionStateRef # "ERROR" THEN "IDLE" ELSE sessionState
    /\ cleanup
    /\ UNCHANGED <<renderVars, error, nAttempts, pc, awaitCtx, fault, retryTimer,
                   restVars, budget>>

\* The promise live.connect() returned rejects; nothing awaits it.
ConnectRejects(c) ==
    /\ channel[c] = "connecting"
    /\ channel' = [channel EXCEPT ![c] = "rejected"]
    /\ UNCHANGED <<renderVars, dirty, cleanupVars, startVars, retryTimer, restVars, budget>>

\* ------------------------------------------------------------ the caller
\* A render of App, followed by its effects: the hook's effect copies
\* sessionState into sessionStateRef, and App's effect calls the startSession
\* of this render (its identity changes with every render, onToolCall being a
\* new function each time).
Render ==
    /\ dirty
    /\ renderedState' = sessionState
    /\ renderedError' = (error # NoError)
    /\ sessionStateRef' = sessionState
    /\ StartSession(sessionState, FALSE)
    /\ UNCHANGED <<channel, retryTimer, restVars>>

clearError == error' = NoError /\ fault' = NoFault /\ dirty' = TRUE

\* The retry button of the error overlay: clearError(), then setTimeout with
\* the startSession of the render that drew the overlay.
HandleRetry ==
    /\ renderedError
    /\ retryTimer = "none"
    /\ budget.clicks > 0
    /\ budget' = [budget EXCEPT !.clicks = @ - 1]
    /\ clearError
    /\ retryTimer' = renderedState
    /\ UNCHANGED <<renderVars, cleanupVars, sessionState, isClosedRef, nAttempts, pc,
                   awaitCtx, channel, restVars>>

\* The timeout of HandleRetry fires.
RetryFires ==
    /\ retryTimer # "none"
    /\ retryTimer' = "none"
    /\ StartSession(retryTimer, dirty)
    /\ UNCHANGED <<renderVars, channel, restVars>>

\* A dismiss button that also puts the session back to Idle.
DismissResetsState ==
    /\ renderedError
    /\ budget.clicks > 0
    /\ budget' = [budget EXCEPT !.clicks = @ - 1]
    /\ clearError
    /\ sessionState' = "IDLE"
    /\ UNCHANGED <<renderVars, cleanupVars, isClosedRef, nAttempts, pc,
                   awaitCtx, channel, retryTimer, restVars>>

\* The dismiss button of the error overlay.
Dismiss ==
    /\ renderedError
    /\ budget.clicks > 0
    /\ budget' = [budget EXCEPT !.clicks = @ - 1]
    /\ clearError
    /\ UNCHANGED <<renderVars, cleanupVars, sessionState, isClosedRef, nAttempts, pc,
                   awaitCtx, channel, retryTimer, restVars>>

\* ------------------------------------------------------------ tool calls
KnownTools == {"generateContent", "generateImage"}

\* What the awaited model call of an invocation can do.
Outcomes(name) ==
    IF name = "generateContent" THEN {"text", "code", "empty", "throw"}
    ELSE {"image", "empty", "throw"}

ResultOk(name) ==
    IF name = "generateContent" THEN "Content generated successfully."
    ELSE "Image generated successfully."
ResultDefault == "Sorry, I couldn't do that."

Entry(role, type, kind, h, i) ==
    [role |-> role, type |-> type, kind |-> kind, ev |-> h, i |-> i]

\* A history that takes its new entries at the end.
addMessageToHistoryAtEnd(hist, entry) == Append(hist, entry)

\* addMessageToHistory: the newest entry goes to the front.
addMessageToHistory(hist, entry) == <<entry>> \o hist

Response(h, i, name, result) == [id |-> <<h, i>>, name |-> name, result |-> result]

\* A send that falls back to the channel that delivered the event when the
\* handle is gone.
SendToolResponseCaptured(acc, r) ==
    LET c == IF sessionPromiseRef # NULL THEN sessionPromiseRef ELSE calls[r.id[1]].ch
    IN  IF c = NULL THEN acc
        ELSE IF channel[c] = "open"
             THEN [acc EXCEPT !.sent = Append(@, [r EXCEPT !.ch = c])]
        ELSE IF channel[c] = "connecting"
             THEN [acc EXCEPT !.pending[c] = Append(@, [r EXCEPT !.ch = c])]
        ELSE acc

\* sessionPromiseRef.current?.then(session => session.sendToolResponse(r)) for
\* the transcript acc: r goes out when the promise the handle holds resolves.
SendToolResponse(acc, r) ==
    LET c == sessionPromiseRef
    IN  IF c = NULL THEN acc
        ELSE IF channel[c] = "open"
             THEN [acc EXCEPT !.sent = Append(@, [r EXCEPT !.ch = c])]
        ELSE IF channel[c] = "connecting"
             THEN [acc EXCEPT !.pending[c] = Append(@, [r EXCEPT !.ch = c])]
        ELSE acc

\* A loop that passes over an invocation of an unknown tool without answering it.
RECURSIVE RunLoopSkipsUnknown(_, _, _, _)
RunLoopSkipsUnknown(h, b, i, acc) ==
    IF i > Len(b) THEN [acc EXCEPT !.idx = i]
    ELSE IF b[i] \in KnownTools
         THEN [acc EXCEPT !.idx = i,
                          !.history = addMessageToHistory(@,
                                          Entry("user", "text", "request", h, i))]
    ELSE RunLoopSkipsUnknown(h, b, i + 1, [acc EXCEPT !.isThinking = FALSE])

\* The loop over the invocations of batch b of event h, from invocation i up to
\* the next await or to the end of the batch.
RECURSIVE RunLoop(_, _, _, _)
RunLoop(h, b, i, acc) ==
    IF i > Len(b) THEN [acc EXCEPT !.idx = i]
    ELSE IF b[i] \in KnownTools
         THEN [acc EXCEPT !.idx = i,
                          !.history = addMessageToHistory(@,
                                          Entry("user", "text", "request", h, i))]
    ELSE RunLoop(h, b, i + 1,
                 [SendToolResponse(acc, [ch |-> NULL] @@ Response(h, i, b[i], ResultDefault))
                     EXCEPT !.isThinking = FALSE])

\* The rest of invocation i once its model call settled with outcome o.
Settle(h, b, i, o, acc) ==
    IF o = "throw"
    THEN [acc EXCEPT !.history = addMessageToHistory(@,
                                     Entry("model", "text", "apology", h, i)),
                     !.isThinking = FALSE]
    ELSE LET shown == IF o = "empty" THEN acc
                      ELSE [acc EXCEPT !.history = addMessageToHistory(@,
                                                     Entry("model", o, "content", h, i))]
         IN  [SendToolResponse(shown, [ch |-> NULL] @@ Response(h, i, b[i], ResultOk(b[i])))
                 EXCEPT !.isThinking = FALSE]

Transcript(thinking, o) ==
    [history |-> history, sent |-> sent, pending |-> pending, isThinking |-> thinking,
     idx |-> 0, out |-> o]

Commit(h, acc) ==
    /\ history' = acc.history
    /\ sent' = acc.sent
    /\ pending' = acc.pending
    /\ isThinking' = acc.isThinking
    /\ calls' = [calls EXCEPT ![h].idx = acc.idx, ![h].outs = Append(@, acc.out)]

\* handleMessage for a message of channel c that carries the tool-call batch b,
\* up to its first await.
ToolCall(c, b) ==
    /\ channel[c] = "open"
    /\ nEvents < budget.events
    /\ nEvents' = nEvents + 1
    /\ LET h == nEvents + 1
           acc == RunLoop(h, b, 1, Transcript(TRUE, "none"))
       IN  /\ history' = acc.history
           /\ sent' = acc.sent
           /\ pending' = acc.pending
           /\ isThinking' = acc.isThinking
           /\ calls' = [calls EXCEPT ![h] = [batch |-> b, idx |-> acc.idx, ch |-> c,
                                             outs |-> <<>>]]
    /\ dirty' = TRUE
    /\ UNCHANGED <<renderVars, cleanupVars, startVars, channel, retryTimer, raised,
                   nChunks, scheduled, clock, greetVars, frameVars, budget>>

\* ToolSettles without the try/catch around the invocation: a throwing model
\* call ends handleMessage.
ToolSettlesNoCatch(h, o) ==
    /\ calls[h].idx \in 1..Len(calls[h].batch)
    /\ LET b == calls[h].batch
           i == calls[h].idx
       IN  /\ o \in Outcomes(b[i])
           /\ IF o = "throw"
              THEN /\ calls' = [calls EXCEPT ![h].idx = Len(b) + 1, ![h].outs = Append(@, o)]
                   /\ raised' = raised \cup {"handleMessage"}
                   /\ UNCHANGED <<history, sent, pending, isThinking>>
              ELSE /\ Commit(h, RunLoop(h, b, i + 1,
                                        Settle(h, b, i, o, Transcript(isThinking, o))))
                   /\ raised' = raised
    /\ dirty' = TRUE
    /\ UNCHANGED <<renderVars, cleanupVars, startVars, channel, retryTimer,
                   nEvents, nChunks, scheduled, clock, greetVars, frameVars, budget>>

\* The model call that invocation calls[h].idx of event h awaits settles, and
\* handleMessage runs on to its next await.
ToolSettles(h, o) ==
    /\ calls[h].idx \in 1..Len(calls[h].batch)
    /\ LET b == calls[h].batch
           i == calls[h].idx
       IN  /\ o \in Outcomes(b[i])
           /\ Commit(h, RunLoop(h, b, i + 1, Settle(h, b, i, o, Transcript(isThinking, o))))
    /\ dirty' = TRUE
    /\ UNCHANGED <<renderVars, cleanupVars, startVars, channel, retryTimer, raised,
                   nEvents, nChunks, scheduled, clock, greetVars, frameVars, budget>>

\* -------------------------------------------------------------- playback
Max(x, y) == IF x >= y THEN x ELSE y

\* The start time without the max with the clock: the cursor alone.
StartTimeCursorOnly(cursor, now) == cursor

\* Math.max(nextStartTimeRef.current, currentTime)
StartTime(cursor, now) == Max(cursor, now)

\* AudioChunk without the test of the output handles.
AudioChunkUnguarded(c, d) ==
    /\ channel[c] = "open"
    /\ nChunks < budget.chunks
    /\ nChunks' = nChunks + 1
    /\ isSpeaking' = TRUE
    /\ dirty' = TRUE
    /\ chunk' = [chunk EXCEPT ![nChunks + 1] = [NoChunk EXCEPT !.dur = d, !.st = "decoding"]]
    /\ UNCHANGED <<renderVars, ctxVars, capVars, audioSourcesRef, nextStartTimeRef, timers,
                   speakingCheckIntervalRef, sessionPromiseRef, cleanedUp, startVars,
                   channel, retryTimer, toolVars, raised, scheduled, clock, greetVars, frameVars, budget>>

\* handleMessage for a message of channel c that carries an audio chunk of
\* duration d, up to await decodeAudioData().
AudioChunk(c, d) ==
    /\ channel[c] = "open"
    /\ nChunks < budget.chunks
    /\ nChunks' = nChunks + 1
    /\ IF outputAudioContextRef # NULL /\ outputGainNodeRef # NULL
       THEN /\ isSpeaking' = TRUE
            /\ dirty' = TRUE
            /\ chunk' = [chunk EXCEPT ![nChunks + 1] = [NoChunk EXCEPT !.dur = d,
                                                                   !.st = "decoding"]]
       ELSE /\ chunk' = [chunk EXCEPT ![nChunks + 1] = [NoChunk EXCEPT !.dur = d,
                                                                   !.st = "skipped"]]
            /\ UNCHANGED <<isSpeaking, dirty>>
    /\ UNCHANGED <<renderVars, ctxVars, capVars, audioSourcesRef, nextStartTimeRef, timers,
                   speakingCheckIntervalRef, sessionPromiseRef, cleanedUp, startVars,
                   channel, retryTimer, toolVars, raised, scheduled, clock, greetVars, frameVars, budget>>

\* A scheduling that starts its poll timer without cancelling the running one.
DecodeSettlesStacks(k, ok) ==
    /\ chunk[k].st = "decoding"
    /\ IF ~ok \/ outputAudioContextRef = NULL \/ outputGainNodeRef = NULL
       THEN /\ chunk' = [chunk EXCEPT ![k].st = "failed"]
            /\ raised' = raised \cup {"handleMessage"}
            /\ UNCHANGED <<audioSourcesRef, nextStartTimeRef, timers,
                           speakingCheckIntervalRef, scheduled>>
       ELSE LET ctx == outputAudioContextRef
                startTime == StartTime(nextStartTimeRef, clock[ctx])
            IN  /\ chunk' = [chunk EXCEPT ![k] = [dur |-> chunk[k].dur, st |-> "done",
                                                  src |-> "started", ctx |-> ctx,
                                                  start |-> startTime]]
                /\ nextStartTimeRef' = startTime + chunk[k].dur
                /\ audioSourcesRef' = audioSourcesRef \cup {k}
                /\ timers' = timers \cup {k}
                /\ speakingCheckIntervalRef' = k
                /\ scheduled' = Append(scheduled, [k |-> k, ctx |-> ctx, start |-> startTime,
                                                   dur |-> chunk[k].dur, now |-> clock[ctx]])
                /\ raised' = raised
    /\ UNCHANGED <<renderVars, dirty, ctxVars, capVars, isSpeaking, sessionPromiseRef,
                   cleanedUp, startVars, channel, retryTimer, toolVars, nChunks, clock, greetVars, frameVars,
                   budget>>

\* decodeAudioData() of chunk k settles and handleMessage runs to its end.  The
\* handles are read again here: createBufferSource() on a cleared handle throws
\* out of handleMessage.
DecodeSettles(k, ok) ==
    /\ chunk[k].st = "decoding"
    /\ IF ~ok \/ outputAudioContextRef = NULL \/ outputGainNodeRef = NULL
       THEN /\ chunk' = [chunk EXCEPT ![k].st = "failed"]
            /\ raised' = raised \cup {"handleMessage"}
            /\ UNCHANGED <<audioSourcesRef, nextStartTimeRef, timers,
                           speakingCheckIntervalRef, scheduled>>
       ELSE LET ctx == outputAudioContextRef
                startTime == StartTime(nextStartTimeRef, clock[ctx])
            IN  /\ chunk' = [chunk EXCEPT ![k] = [dur |-> chunk[k].dur, st |-> "done",
                                                  src |-> "started", ctx |-> ctx,
                                                  start |-> startTime]]
                /\ nextStartTimeRef' = startTime + chunk[k].dur
                /\ audioSourcesRef' = audioSourcesRef \cup {k}
                /\ timers' = (timers \ {speakingCheckIntervalRef}) \cup {k}
                /\ speakingCheckIntervalRef' = k
                /\ scheduled' = Append(scheduled, [k |-> k, ctx |-> ctx, start |-> startTime,
                                                   dur |-> chunk[k].dur, now |-> clock[ctx]])
                /\ raised' = raised
    /\ UNCHANGED <<renderVars, dirty, ctxVars, capVars, isSpeaking, sessionPromiseRef,
                   cleanedUp, startVars, channel, retryTimer, toolVars, nChunks, clock, greetVars, frameVars,
                   budget>>

\* source.onended of chunk k: its buffer has played out, or it was stopped.
SourceEnds(k) ==
    /\ \/ chunk[k].src = "stopped"
       \/ /\ chunk[k].src = "started"
          /\ outCtx[chunk[k].ctx] = "running"
          /\ clock[chunk[k].ctx] >= chunk[k].start + chunk[k].dur
    /\ chunk' = [chunk EXCEPT ![k].src = "ended"]
    /\ audioSourcesRef' = audioSourcesRef \ {k}
    /\ UNCHANGED <<renderVars, dirty, ctxVars, capVars, nextStartTimeRef, timers,
                   speakingCheckIntervalRef, isSpeaking, sessionPromiseRef, cleanedUp,
                   startVars, channel, retryTimer, restVars, budget>>

\* The callback of the poll timer t that setInterval registered.
TimerFires(t) ==
    /\ t \in timers
    /\ IF /\ outputAudioContextRef # NULL
          /\ clock[outputAudioContextRef] >= nextStartTimeRef - SPEAKING_EPSILON
       THEN /\ isSpeaking' = FALSE
            /\ dirty' = TRUE
            /\ timers' = timers \ {speakingCheckIntervalRef}
            /\ speakingCheckIntervalRef' = NULL
       ELSE UNCHANGED <<isSpeaking, dirty, timers, speakingCheckIntervalRef>>
    /\ UNCHANGED <<renderVars, ctxVars, capVars, chunk, audioSourcesRef, nextStartTimeRef,
                   sessionPromiseRef, cleanedUp, startVars, channel, retryTimer, restVars,
                   budget>>

\* Time passes: the clock of every running output context advances.
Tick ==
    /\ \E a \in Attempts : outCtx[a] = "running"
    /\ \A a \in Attempts : outCtx[a] = "running" => clock[a] < MaxTime
    /\ clock' = [a \in Attempts |-> IF outCtx[a] = "running" THEN clock[a] + 1 ELSE clock[a]]
    /\ UNCHANGED <<renderVars, dirty, cleanupVars, startVars, channel, retryTimer, toolVars,
                   raised, nChunks, scheduled, greetVars, frameVars, budget>>

\* ------------------------------------------------------- the classifier
RECURSIVE SeqsUpTo(_, _)
SeqsUpTo(S, n) ==
    IF n = 0 THEN {<<>>}
    ELSE LET shorter == SeqsUpTo(S, n - 1)
         IN  shorter \cup {Append(m, w) : m \in shorter, w \in S}

\* What a catch clause can receive: an Error with a name and a message, or a
\* thrown value that is not an Error.
ClassifierInputs ==
    {[isError |-> b, name |-> n, message |-> m] :
        b \in BOOLEAN, n \in Names, m \in SeqsUpTo(Words, MaxMsgLen)}

\* The catch clause of startSession for a fault thrown before any resource
\* exists.
Classify ==
    /\ sessionState = "IDLE"
    /\ error' = mapErrorToAppError(fault)
    /\ sessionState' = "ERROR"
    /\ cleanup
    /\ UNCHANGED <<renderVars, fault, isClosedRef, nAttempts, pc, awaitCtx, channel,
                   retryTimer, restVars, budget>>

\* ------------------------------------------------------- specification

\* ------------------------------------------------------------- capture
\* onaudioprocess of the capture node that onopen of channel p made: the frame
\* is handed to sessionPromiseRef.current?.then(session =>
\* session.sendRealtimeInput(...)), which sends it once the promise the handle
\* holds now has resolved, at once if it already has.
AudioProcess(p) ==
    /\ proc[p] = "connected"
    /\ nFrames < budget.frames
    /\ nFrames' = nFrames + 1
    /\ LET c == sessionPromiseRef
           ready == c # NULL /\ channel[c] = "open"
           frame == [n |-> nFrames + 1, from |-> p, ch |-> c, ready |-> ready]
       IN  /\ realtimeSent' = IF ready THEN Append(realtimeSent, frame) ELSE realtimeSent
           /\ realtimePending' =
                IF c # NULL /\ channel[c] = "connecting"
                THEN [realtimePending EXCEPT ![c] = Append(@, frame)]
                ELSE realtimePending
    /\ UNCHANGED <<renderVars, dirty, cleanupVars, startVars, channel, retryTimer, toolVars,
                   raised, nChunks, scheduled, clock, greetVars, budget>>

\* ------------------------------------------------------------ the greeting
\* The caller that starts the session on a tap: a render of it runs the hook's
\* effect only.
RenderSleeper ==
    /\ dirty
    /\ dirty' = FALSE
    /\ renderedState' = sessionState
    /\ renderedError' = (error # NoError)
    /\ sessionStateRef' = sessionState
    /\ UNCHANGED <<cleanupVars, startVars, channel, retryTimer, restVars, budget>>

\* handleWakeUp: the tap that wakes the robot calls startSession(true).  The
\* contexts made in the tap are running, so the call goes on to its greeting
\* block at once: the detached task asks for the utterance and startSession
\* continues with getUserMedia.
WakeUp ==
    /\ sleeping
    /\ sleeping' = FALSE
    /\ budget.suspends = 0
    /\ StartSession(renderedState, TRUE)
    /\ greeting' = IF nAttempts' > nAttempts
                   THEN [greeting EXCEPT ![nAttempts'] = "synth"]
                   ELSE greeting
    /\ UNCHANGED <<renderVars, channel, retryTimer, toolVars, raised, nChunks, scheduled,
                   clock, frameVars>>

\* The retry button of the error display: startSession(), without a greeting.
RetryButton ==
    /\ renderedError
    /\ StartSession(renderedState, dirty)
    /\ UNCHANGED <<renderVars, channel, retryTimer, restVars>>

\* What the greeting task does with the answer o of the speech model: a throw
\* is caught and logged; audio is decoded if the output context and the gain
\* node are there.
AfterSynth(o) ==
    IF o = "throw" THEN "failed"
    ELSE IF o = "audio" /\ outputAudioContextRef # NULL /\ outputGainNodeRef # NULL
         THEN "decode"
    ELSE "skipped"

\* A greeting task whose failure goes to the catch clause of startSession.
GreetingSynthSettlesEscalates(a, o) ==
    /\ greeting[a] = "synth"
    /\ greeting' = [greeting EXCEPT ![a] = AfterSynth(o)]
    /\ IF o = "throw"
       THEN /\ Catch(a, NullDeref)
            /\ UNCHANGED <<renderVars, isClosedRef, nAttempts, awaitCtx, channel, retryTimer,
                           toolVars, raised, nChunks, scheduled, clock, sleeping, frameVars, budget>>
       ELSE UNCHANGED <<renderVars, dirty, cleanupVars, startVars, channel, retryTimer,
                        toolVars, raised, nChunks, scheduled, clock, sleeping, frameVars, budget>>

\* The generateContent call of the greeting task of attempt a settles with o.
GreetingSynthSettles(a, o) ==
    /\ greeting[a] = "synth"
    /\ greeting' = [greeting EXCEPT ![a] = AfterSynth(o)]
    /\ UNCHANGED <<renderVars, dirty, cleanupVars, startVars, channel, retryTimer,
                   toolVars, raised, nChunks, scheduled, clock, sleeping, frameVars, budget>>

\* decodeAudioData of the greeting settles: the source is made on whatever
\* output context the handle holds now, and a throw (of the decode, or of the
\* dereference of a handle that cleanup has nulled) is caught and logged.
GreetingDecodeSettles(a, ok) ==
    /\ greeting[a] = "decode"
    /\ greeting' = [greeting EXCEPT ![a] =
                        IF ok /\ outputAudioContextRef # NULL /\ outputGainNodeRef # NULL
                        THEN "played" ELSE "failed"]
    /\ UNCHANGED <<renderVars, dirty, cleanupVars, startVars, channel, retryTimer,
                   toolVars, raised, nChunks, scheduled, clock, sleeping, frameVars, budget>>

\* The state after the hook is constructed, before the first render's effects
\* (fault and budget are the environment's).
Mounted ==
    /\ sessionState = "IDLE"
    /\ error = NoError
    /\ isThinking = FALSE
    /\ isSpeaking = FALSE
    /\ history = <<>>
    /\ renderedState = "IDLE"
    /\ renderedError = FALSE
    /\ dirty = TRUE
    /\ sessionStateRef = "IDLE"
    /\ isClosedRef = FALSE
    /\ inputAudioContextRef = NULL
    /\ outputAudioContextRef = NULL
    /\ outputGainNodeRef = NULL
    /\ scriptProcessorRef = NULL
    /\ streamRef = NULL
    /\ sessionPromiseRef = NULL
    /\ nextStartTimeRef = 0
    /\ audioSourcesRef = {}
    /\ speakingCheckIntervalRef = NULL
    /\ nAttempts = 0
    /\ pc = [a \in Attempts |-> "idle"]
    /\ awaitCtx = [a \in Attempts |-> NULL]
    /\ inCtx = [a \in Attempts |-> "none"]
    /\ outCtx = [a \in Attempts |-> "none"]
    /\ stream = [a \in Attempts |-> "none"]
    /\ channel = [a \in Attempts |-> "none"]
    /\ proc = [a \in Attempts |-> "none"]
    /\ retryTimer = "none"
    /\ raised = {}
    /\ nEvents = 0
    /\ calls = [h \in Events |-> NoCall]
    /\ sent = <<>>
    /\ pending = [c \in Attempts |-> <<>>]
    /\ nChunks = 0
    /\ chunk = [k \in Chunks |-> NoChunk]
    /\ scheduled = <<>>
    /\ timers = {}
    /\ clock = [a \in Attempts |-> 0]
    /\ greeting = [a \in Attempts |-> "none"]
    /\ nFrames = 0
    /\ realtimeSent = <<>>
    /\ realtimePending = [c \in Attempts |-> <<>>]
    /\ cleanedUp = FALSE

\* The session lifecycle with its caller.  The first contexts may start
\* suspended, and the user may click once on the error overlay.
Init ==
    /\ Mounted
    /\ sleeping = FALSE
    /\ fault = NoFault
    /\ \E s \in SuspendBudgets, k \in ClickBudgets :
            budget = [attempts |-> MaxAttempts, faults |-> TRUE, suspends |-> s,
                      clicks |-> k, events |-> 0, chunks |-> 0, frames |-> 0]

Next ==
    \/ Render
    \/ HandleRetry
    \/ RetryFires
    \/ Dismiss
    \/ \E a \in Attempts : ResumeIn(a)
    \/ \E a \in Attempts : ResumeOut(a)
    \/ \E a \in Attempts : GetUserMedia(a)
    \/ \E c \in Attempts : OnOpen(c)
    \/ \E c \in Attempts : OnError(c)
    \/ \E c \in Attempts : OnClose(c)
    \/ \E c \in Attempts : ConnectRejects(c)

Spec == Init /\ [][Next]_vars

\* Tool calls over the channels of a lifecycle in which the contexts start
\* running, the awaits of startSession succeed and nobody clicks.
InitTools ==
    /\ Mounted
    /\ sleeping = FALSE
    /\ fault = NoFault
    /\ budget = [attempts |-> MaxAttempts, faults |-> FALSE, suspends |-> 0,
                 clicks |-> 0, events |-> MaxEvents, chunks |-> 0, frames |-> 0]

NextTools ==
    \/ Render
    \/ \E a \in Attempts : GetUserMedia(a)
    \/ \E c \in Attempts : OnOpen(c)
    \/ \E c \in Attempts : OnError(c)
    \/ \E c \in Attempts : OnClose(c)
    \/ \E c \in Attempts, b \in Batches : ToolCall(c, b)
    \/ \E h \in Events, o \in {"text", "code", "image", "empty", "throw"} : ToolSettles(h, o)

SpecTools == InitTools /\ [][NextTools]_vars

\* Playback over the channels of a lifecycle in which the contexts start
\* running, the awaits of startSession succeed and nobody clicks.
InitAudio ==
    /\ Mounted
    /\ sleeping = FALSE
    /\ fault = NoFault
    /\ budget = [attempts |-> MaxAttempts, faults |-> FALSE, suspends |-> 0,
                 clicks |-> 0, events |-> 0, chunks |-> MaxChunks, frames |-> 0]

NextAudio ==
    \/ Render
    \/ \E a \in Attempts : GetUserMedia(a)
    \/ \E c \in Attempts : OnOpen(c)
    \/ \E c \in Attempts : OnError(c)
    \/ \E c \in Attempts : OnClose(c)
    \/ \E c \in Attempts, d \in Durations : AudioChunk(c, d)
    \/ \E k \in Chunks, ok \in BOOLEAN : DecodeSettles(k, ok)
    \/ \E k \in Chunks : SourceEnds(k)
    \/ \E t \in Chunks : TimerFires(t)
    \/ Tick

SpecAudio == InitAudio /\ [][NextAudio]_vars

\* mapErrorToAppError over every fault of ClassifierInputs: no session is
\* started, the catch clause runs once on the fault Init drew.
InitClassify ==
    /\ Mounted
    /\ sleeping = FALSE
    /\ fault \in ClassifierInputs
    /\ budget = [attempts |-> 0, faults |-> FALSE, suspends |-> 0, clicks |-> 0,
                 events |-> 0, chunks |-> 0, frames |-> 0]

NextClassify == Classify

SpecClassify == InitClassify /\ [][NextClassify]_vars

\* The session that is started by a tap, with its greeting: the awaits of
\* startSession may fail, and the error display offers a retry.
InitGreeting ==
    /\ Mounted
    /\ sleeping = TRUE
    /\ fault = NoFault
    /\ budget = [attempts |-> MaxAttempts, faults |-> TRUE, suspends |-> 0,
                 clicks |-> 0, events |-> 0, chunks |-> 0, frames |-> 0]

NextGreeting ==
    \/ RenderSleeper
    \/ WakeUp
    \/ RetryButton
    \/ \E a \in Attempts : GetUserMedia(a)
    \/ \E c \in Attempts : OnOpen(c)
    \/ \E c \in Attempts : OnError(c)
    \/ \E c \in Attempts : OnClose(c)
    \/ \E c \in Attempts : ConnectRejects(c)
    \/ \E a \in Attempts, o \in {"audio", "silent", "throw"} : GreetingSynthSettles(a, o)
    \/ \E a \in Attempts, ok \in BOOLEAN : GreetingDecodeSettles(a, ok)

SpecGreeting == InitGreeting /\ [][NextGreeting]_vars

\* The capture of microphone frames over the channels of a lifecycle in which
\* the contexts start running, the awaits of startSession succeed and nobody
\* clicks.
InitCapture ==
    /\ Mounted
    /\ sleeping = FALSE
    /\ fault = NoFault
    /\ budget = [attempts |-> MaxAttempts, faults |-> FALSE, suspends |-> 0,
                 clicks |-> 0, events |-> 0, chunks |-> 0, frames |-> MaxFrames]

NextCapture ==
    \/ Render
    \/ \E a \in Attempts : GetUserMedia(a)
    \/ \E c \in Attempts : OnOpen(c)
    \/ \E c \in Attempts : OnError(c)
    \/ \E c \in Attempts : OnClose(c)
    \/ \E p \in Attempts : AudioProcess(p)

SpecCapture == InitCapture /\ [][NextCapture]_vars

\* =============================================================== claims
\* The signatures of a fault as the claims name them, read off its name and
\* the words of its message.
HasWord(f, ws) == \E i \in 1..Len(f.message) : f.message[i] \in ws

PermissionFault(f) ==
    f.name = "NotAllowedError" \/ HasWord(f, {"permission", "Permission"})

NetworkFault(f) ==
    \/ HasWord(f, {"400", "403", "network", "cors", "CORS"})
    \/ \E i \in 1..(Len(f.message) - 1) :
            f.message[i] \in {"api", "API"} /\ f.message[i + 1] \in {"key", "Key"}

DeviceFault(f) == f.name = "NotFoundError" \/ HasWord(f, {"device"})

\* In SpecClassify: the catch clause has classified the fault Init drew.
Classified == sessionState = "ERROR" /\ fault.isError

\* C9: the classifier maps a permission-denial fault to the permission bucket
\* with a non-empty list of steps, a fault whose signature is a network/auth one
\* (api key, 400, 403, network, cors) to the connection bucket, and a fault with
\* no recognized signature to the unknown bucket with the fault's own message
\* and no steps.  (Faults are Error instances; which bucket wins when a fault
\* carries several signatures is C10's subject, so the network case is read for
\* faults without a permission signature.)
C9_Classification ==
    Classified =>
        /\ PermissionFault(fault) =>
                error.title = TitlePermission /\ Len(error.steps) > 0
        /\ NetworkFault(fault) /\ ~PermissionFault(fault) =>
                error.title = TitleConnection
        /\ ~PermissionFault(fault) /\ ~NetworkFault(fault) /\ ~DeviceFault(fault) =>
                /\ error.title = TitleUnknown
                /\ error.message = fault.message
                /\ error.steps = <<>>

\* A fault without any signature has been classified and kept its message.
C9_Witness ==
    /\ Classified
    /\ fault = Err("TypeError", <<"boom">>)
    /\ error = [title |-> TitleUnknown, message |-> <<"boom">>, steps |-> <<>>]

\* C10: classification follows the precedence permission, then missing
\* device, then network/auth, then unknown: a fault that carries several
\* signatures lands in the bucket of the first of these it carries.
C10_Precedence ==
    Classified =>
        error.title = IF PermissionFault(fault) THEN TitlePermission
                      ELSE IF DeviceFault(fault) THEN TitleDevice
                      ELSE IF NetworkFault(fault) THEN TitleConnection
                      ELSE TitleUnknown

\* ------------------------------------------------- lifecycle claims
handles ==
    <<inputAudioContextRef, outputAudioContextRef, outputGainNodeRef, scriptProcessorRef,
      streamRef, sessionPromiseRef>>

\* Attempt a is outstanding: its startSession is suspended at an await, or the
\* channel it opened is connecting or open.
Outstanding(a) ==
    pc[a] \in {"resumeIn", "resumeOut", "gum"} \/ channel[a] \in {"connecting", "open"}

\* A step in which the timeout of handleRetry calls startSession.
RetryStep == retryTimer # "none" /\ retryTimer' = "none"

\* C1: a start() invoked while the state is Connecting or Connected acquires
\* no context, no stream and no channel and leaves state, error and every
\* handle unchanged, and at no time is more than one attempt outstanding.
C1_IdempotentStart ==
    /\ [][(RetryStep /\ sessionState \in {"CONNECTING", "CONNECTED"}) =>
            UNCHANGED <<sessionState, error, handles, nAttempts, inCtx, outCtx, stream,
                        channel>>]_vars
    /\ [](Cardinality({a \in Attempts : Outstanding(a)}) <= 1)

HandlesNull == \A i \in 1..Len(handles) : handles[i] = NULL

NoLiveResources ==
    /\ \A a \in Attempts : inCtx[a] \in {"none", "closed"} /\ outCtx[a] \in {"none", "closed"}
    /\ \A a \in Attempts : stream[a] # "live"
    /\ \A k \in Chunks : chunk[k].src # "started"

\* C5: cleanup is idempotent and never raises: once it has run (and until a
\* later step acquires something again) every handle is clear and there is no
\* live playback source, no open audio context and no live microphone track.
C5_CleanupComplete ==
    /\ cleanedUp /\ HandlesNull => NoLiveResources
    /\ "cleanup" \notin raised

\* A step in which a step of attempt a's startSession fails: one of its awaits
\* rejects, or the connect operation of its channel rejects.
FailureStep(a) ==
    \/ pc[a] \in {"resumeIn", "resumeOut", "gum"} /\ pc'[a] = "done" /\ channel'[a] = "none"
    \/ channel[a] = "connecting" /\ channel'[a] = "rejected"

\* C6: whichever step of start() fails (a context resume, the microphone, the
\* opening of the channel, an asynchronous rejection of connect included), the
\* failure is caught and classified, the state becomes Error with an AppError
\* held, and cleanup has run.
C6_FailureHandled ==
    [][\A a \in Attempts :
            FailureStep(a) => sessionState' = "ERROR" /\ error' # NoError /\ cleanedUp']_vars

\* C7: when channel c delivers a transport error, the state becomes Error, an
\* AppError is held, and cleanup is performed by that very step: the capture
\* node disconnected, both contexts closed, the microphone stopped, the
\* playback sources stopped, every handle dropped.
C7_TransportErrorCleansUp ==
    [][\A c \in Attempts :
            (channel[c] \in {"connecting", "open"} /\ channel'[c] = "errored") =>
                /\ sessionState' = "ERROR"
                /\ error' # NoError
                /\ HandlesNull'
                /\ inputAudioContextRef # NULL => inCtx'[inputAudioContextRef] = "closed"
                /\ outputAudioContextRef # NULL => outCtx'[outputAudioContextRef] = "closed"
                /\ streamRef # NULL => stream'[streamRef] = "stopped"
                /\ scriptProcessorRef # NULL => proc'[scriptProcessorRef] = "disconnected"
                /\ audioSourcesRef' = {}]_vars

\* C8: an open callback of channel c that fires after cleanup has run (nothing
\* has started since) does not set the state to Connected, creates and
\* connects no capture node, registers no frame handler, and does not raise.
C8_StaleOpenIgnored ==
    [][\A c \in Attempts :
            (channel[c] = "connecting" /\ channel'[c] = "open" /\ cleanedUp) =>
                /\ sessionState' = sessionState
                /\ scriptProcessorRef' = scriptProcessorRef
                /\ proc' = proc
                /\ raised' = raised]_vars

\* Channel c opened after cleanup had run, and its callback wired nothing.
C8_Witness ==
    \E c \in Attempts :
        /\ channel[c] = "open"
        /\ proc[c] = "none"
        /\ cleanedUp
        /\ HandlesNull
        /\ sessionState = "ERROR"

\* ------------------------------------------------------ tool-call claims
\* handleMessage has run through the whole batch of event h.
BatchDone(h) == h <= nEvents /\ calls[h].idx > Len(calls[h].batch)

\* handleMessage of event h is inside its batch, awaiting a model call.
BatchRunning(h) == h <= nEvents /\ calls[h].idx \in 1..Len(calls[h].batch)

\* The channel that delivered event h is still the session's, and open.
ChannelKept(h) == sessionPromiseRef = calls[h].ch /\ channel[calls[h].ch] = "open"

ResponsesTo(h, i) == {n \in 1..Len(sent) : sent[n].id = <<h, i>>}

\* C2: for a tool-call event of k invocations exactly k tool responses are
\* sent on the channel, one per invocation with its id and name, whether the
\* invocation succeeds, throws or names an unknown tool (stated of a finished
\* batch whose channel is still the open channel of the session).
C2_OneResponsePerInvocation ==
    \A h \in Events :
        BatchDone(h) /\ ChannelKept(h) =>
            /\ Cardinality({n \in 1..Len(sent) : sent[n].id[1] = h}) = Len(calls[h].batch)
            /\ \A i \in 1..Len(calls[h].batch) :
                    /\ Cardinality(ResponsesTo(h, i)) = 1
                    /\ \A n \in ResponsesTo(h, i) :
                            sent[n].name = calls[h].batch[i] /\ sent[n].ch = calls[h].ch

\* C3: isThinking is true from the start of the first invocation of a batch
\* until its last invocation has completed, and false before the event and
\* after the batch.
C3_ThinkingBracket ==
    /\ \A h \in Events : BatchRunning(h) => isThinking
    /\ (\A h \in Events : h > nEvents \/ BatchDone(h)) => ~isThinking

\* -------------------------------------------------------- playback claims
\* Entries i < j of the scheduling log are consecutive on one output context.
Consecutive(i, j) ==
    /\ i < j
    /\ scheduled[i].ctx = scheduled[j].ctx
    /\ \A m \in (i + 1)..(j - 1) : scheduled[m].ctx # scheduled[i].ctx

\* C4: within one session, chunks A and B scheduled consecutively satisfy
\* startTime(B) >= startTime(A) + duration(A), and every chunk's start time is
\* at least the playback clock at the moment it is scheduled, whatever the
\* order in which the decodes complete.
C4_Gapless ==
    /\ \A j \in 1..Len(scheduled) : scheduled[j].start >= scheduled[j].now
    /\ \A i, j \in 1..Len(scheduled) :
            Consecutive(i, j) => scheduled[j].start >= scheduled[i].start + scheduled[i].dur

\* Two chunks of one session were scheduled in the reverse of their arrival
\* order, the second one after the clock had passed the cursor.
C4_Witness ==
    /\ Len(scheduled) = 2
    /\ Consecutive(1, 2)
    /\ scheduled[1].k > scheduled[2].k
    /\ scheduled[2].now > scheduled[1].start + scheduled[1].dur
    /\ scheduled[2].start = scheduled[2].now

\* The entries of a history, as a set.
Entries(hist) == {hist[n] : n \in 1..Len(hist)}

\* hist2 is hist1 with entries added at the front.
Extends(hist2, hist1) ==
    /\ Len(hist2) >= Len(hist1)
    /\ SubSeq(hist2, Len(hist2) - Len(hist1) + 1, Len(hist2)) = hist1

\* A step in which the model call awaited by event h settles with outcome o.
SettleStep(h, o) ==
    /\ BatchRunning(h)
    /\ Len(calls'[h].outs) = Len(calls[h].outs) + 1
    /\ calls'[h].outs[Len(calls'[h].outs)] = o

\* The state and the resources of the session.
sessionResources ==
    <<sessionState, error, handles, inCtx, outCtx, stream, proc, channel, audioSourcesRef,
      nextStartTimeRef, cleanedUp>>

\* C11: a failure inside one tool invocation is contained: an apology entry
\* is appended to the history in place of generated content, the session state
\* and the held AppError do not change, no session resource is released, and
\* the remaining invocations of the event are executed in order.
C11_ToolFailureContained ==
    [][\A h \in Events :
            SettleStep(h, "throw") =>
                LET b == calls[h].batch
                    i == calls[h].idx
                    n == calls'[h].idx
                IN  /\ Extends(history', history)
                    /\ Entry("model", "text", "apology", h, i) \in Entries(history')
                    /\ \A e \in Entries(history') : ~(e.kind = "content" /\ e.ev = h /\ e.i = i)
                    /\ UNCHANGED sessionResources
                    /\ raised' = raised
                    /\ n > i
                    /\ \A m \in (i + 1)..(n - 1) : m <= Len(b) /\ b[m] \notin KnownTools
                    /\ n <= Len(b) =>
                            /\ b[n] \in KnownTools
                            /\ history'[1] = Entry("user", "text", "request", h, n)]_vars

\* The first invocation of a batch of two failed, the second one was executed
\* and succeeded, and the session is still connected.
C11_Witness ==
    \E h \in Events :
        /\ BatchDone(h)
        /\ Len(calls[h].outs) = 2
        /\ calls[h].outs[1] = "throw"
        /\ calls[h].outs[2] = "image"
        /\ sessionState = "CONNECTED"
        /\ error = NoError

\* C12: inbound chunks are scheduled in the order in which they arrived: of
\* two chunks of one session the one received first (the smaller number) is
\* given its start time first, and the earlier start time, whatever the order
\* in which their decodes complete.
C12_ArrivalOrder ==
    \A i, j \in 1..Len(scheduled) :
        (i < j /\ scheduled[i].ctx = scheduled[j].ctx) =>
            /\ scheduled[i].k < scheduled[j].k
            /\ scheduled[i].start < scheduled[j].start

\* C13: an audio chunk received after cleanup has released the output
\* resources is rejected: no source is created or started for it, the cursor
\* and the live set are unchanged, isSpeaking is unchanged, nothing is raised.
C13_StaleChunkRejected ==
    [][(nChunks' = nChunks + 1 /\ cleanedUp) =>
            /\ chunk'[nChunks'].st = "skipped"
            /\ chunk'[nChunks'].src = "none"
            /\ \A k \in Chunks : k # nChunks' => chunk'[k] = chunk[k]
            /\ UNCHANGED <<nextStartTimeRef, audioSourcesRef, isSpeaking, raised, timers,
                           speakingCheckIntervalRef, scheduled>>]_vars

\* A chunk arrived on an open channel after cleanup and was skipped.
C13_Witness ==
    \E k \in Chunks, c \in Attempts :
        /\ chunk[k].st = "skipped"
        /\ channel[c] = "open"
        /\ cleanedUp
        /\ outputAudioContextRef = NULL
        /\ ~isSpeaking

\* ------------------------------------------------ lifecycle claims (2)
\* A step in which the remote side closes channel c, the open channel of a
\* Connected session on which no error was delivered.
CleanCloseStep(c) ==
    /\ channel[c] = "open"
    /\ channel'[c] = "closed"
    /\ sessionPromiseRef = c
    /\ scriptProcessorRef = c
    /\ sessionState = "CONNECTED"
    /\ sessionStateRef = "CONNECTED"

\* C14: when the remote side closes the channel of a Connected session with
\* no preceding error, the state becomes Idle and cleanup runs, so that
\* afterwards no capture node, audio context, microphone track, playback
\* source or channel handle remains.
C14_CleanClose ==
    [][\A c \in Attempts :
            CleanCloseStep(c) =>
                /\ sessionState' = "IDLE"
                /\ HandlesNull'
                /\ NoLiveResources'
                /\ \A a \in Attempts : proc'[a] # "connected"]_vars

\* A step in which a button of the error overlay calls clearError().
ClearErrorStep == budget'.clicks < budget.clicks

\* C15: clearError() sets the held AppError to none and changes nothing
\* else: session state, history, isThinking, isSpeaking, the playback cursor,
\* the live set and every resource handle are the same before and after.
C15_ClearErrorFrame ==
    [][ClearErrorStep =>
            /\ error' = NoError
            /\ UNCHANGED <<sessionState, history, isThinking, isSpeaking, nextStartTimeRef,
                           audioSourcesRef, handles, isClosedRef, sessionStateRef, inCtx,
                           outCtx, stream, proc, channel, pc, nAttempts>>]_vars

\* The overlay of a failed start was dismissed: the error is gone, the state
\* is still Error.
C15_Witness ==
    /\ budget.clicks = 0
    /\ retryTimer = "none"
    /\ error = NoError
    /\ sessionState = "ERROR"
    /\ cleanedUp

\* C16: once the state is Error the program makes no new attempt by itself:
\* the state leaves Error for Connecting only in a step of the caller's retry
\* button (its delayed start), never as a side effect of the state change.
C16_NoAutomaticRetry ==
    [][(sessionState = "ERROR" /\ sessionState' = "CONNECTING") => RetryStep]_vars

\* The invocations of event h that a step passes without awaiting anything:
\* those of unknown tools.
PassedUnknown(h) ==
    {m \in (calls[h].idx + 1)..(calls'[h].idx - 1) : calls'[h].batch[m] \notin KnownTools}

\* C17: an invocation whose name is neither generateContent nor generateImage
\* generates no content, adds no entry to the history and raises nothing, and
\* exactly one tool response goes out for it, with its id and name and the
\* generic failure string (the session's channel being open).
C17_UnknownTool ==
    [][\A h \in Events : \A m \in PassedUnknown(h) :
            /\ \A e \in Entries(history') : ~(e.ev = h /\ e.i = m)
            /\ raised' = raised
            /\ UNCHANGED <<sessionState, error>>
            /\ (sessionPromiseRef # NULL /\ channel[sessionPromiseRef] = "open") =>
                    \E n \in (Len(sent) + 1)..Len(sent') :
                        /\ sent'[n] = [ch |-> sessionPromiseRef] @@
                                          Response(h, m, calls'[h].batch[m], ResultDefault)
                        /\ \A k \in 1..Len(sent') : sent'[k].id = <<h, m>> => k = n]_vars

\* A batch of a known and an unknown tool is finished on the open channel: the
\* image was shown and the unknown invocation was answered.
C17_Witness ==
    \E h \in Events :
        /\ BatchDone(h)
        /\ ChannelKept(h)
        /\ calls[h].batch = <<"generateImage", "other">>
        /\ calls[h].outs = <<"image">>
        /\ \E n \in 1..Len(sent) : sent[n].id = <<h, 2>> /\ sent[n].result = ResultDefault
        /\ Len(history) = 2

\* The greeting task of attempt a fails in this step.
GreetingFails(a) == greeting[a] # "failed" /\ greeting'[a] = "failed"

\* C18: with start(playGreeting = true) a failure of the greeting synthesis
\* or playback never sets the state to Error, never sets the AppError and
\* never triggers cleanup, and the attempt goes on to the microphone
\* acquisition and the channel as it does without a greeting.
C18_GreetingBestEffort ==
    [][/\ \A a \in Attempts :
            GreetingFails(a) =>
                UNCHANGED <<sessionState, error, fault, raised, cleanedUp, handles, isClosedRef,
                            inCtx, outCtx, stream, proc, channel, pc, nAttempts>>
       /\ \A a \in Attempts :
            (greeting[a] = "none" /\ greeting'[a] = "synth") =>
                /\ pc'[a] = "gum"
                /\ sessionState' = "CONNECTING"
                /\ error' = NoError]_vars

\* The greeting of a session failed, and the session is connected with no
\* error.
C18_Witness ==
    \E a \in Attempts :
        /\ greeting[a] = "failed"
        /\ channel[a] = "open"
        /\ sessionPromiseRef = a
        /\ sessionState = "CONNECTED"
        /\ error = NoError
        /\ ~cleanedUp

\* Attempt a holds a resource that has not been released.
Live(a) ==
    \/ inCtx[a] \in {"suspended", "running"}
    \/ outCtx[a] \in {"suspended", "running"}
    \/ stream[a] = "live"
    \/ proc[a] = "connected"
    \/ channel[a] \in {"connecting", "open"}

\* C19: a start that supersedes an earlier session or attempt releases the
\* earlier one's resources before it acquires new ones: at most one bundle of
\* contexts, microphone stream, capture node and channel is live, and no
\* resource stays unreleased once its handle holds another.
C19_OneBundle ==
    /\ Cardinality({a \in Attempts : Live(a)}) <= 1
    /\ \A a \in Attempts :
            /\ inCtx[a] \in {"suspended", "running"} => inputAudioContextRef = a
            /\ outCtx[a] \in {"suspended", "running"} => outputAudioContextRef = a
            /\ stream[a] = "live" => streamRef = a
            /\ proc[a] = "connected" => scriptProcessorRef = a

\* The awaited model call of event h settles in this step, after a cleanup or
\* a session error that came while it was in flight.
SettlesAfterTeardown(h) ==
    /\ BatchRunning(h)
    /\ Len(calls'[h].outs) = Len(calls[h].outs) + 1
    /\ cleanedUp \/ sessionState = "ERROR"

\* C20: a cleanup or a session error that occurs while a tool invocation is
\* in flight does not abort it: the invocation completes (its content is
\* shown) and clears isThinking, and when the channel handle is gone the send
\* of the response is a no-op: nothing is sent and nothing is raised.
C20_ToolOutlivesSession ==
    [][\A h \in Events :
            SettlesAfterTeardown(h) =>
                LET i == calls[h].idx
                    o == calls'[h].outs[Len(calls'[h].outs)]
                IN  /\ isThinking' = FALSE
                    /\ raised' = raised
                    /\ UNCHANGED <<sessionState, error, handles>>
                    /\ o \in {"text", "code", "image"} =>
                            Entry("model", o, "content", h, i) \in Entries(history')
                    /\ sessionPromiseRef = NULL => sent' = sent /\ pending' = pending]_vars

\* A text was generated after the session had been closed and cleaned up: it
\* is in the history, no response went out, and isThinking is clear.
C20_Witness ==
    \E h \in Events :
        /\ BatchDone(h)
        /\ calls[h].batch = <<"generateContent">>
        /\ calls[h].outs = <<"text">>
        /\ cleanedUp
        /\ sessionPromiseRef = NULL
        /\ channel[calls[h].ch] = "closed"
        /\ sent = <<>>
        /\ Len(history) = 2
        /\ ~isThinking

\* The entries a step has put in front of the history.
Added == SubSeq(history', 1, Len(history') - Len(history))

\* C21: the history is append-only and newest-first: a step leaves it as it
\* is or puts new entries at its front, one per addMessageToHistory, and never
\* removes, reorders or modifies an entry it holds (a continuation of
\* handleMessage appends at most twice before its next await: the content of
\* one invocation, then the request of a later one in front of it).
C21_HistoryAppendOnly ==
    [][/\ Extends(history', history)
       /\ Len(Added) <= 2
       /\ Len(Added) = 2 =>
            /\ Added[2].kind \in {"content", "apology"}
            /\ Added[1].kind = "request"
            /\ Added[1].ev = Added[2].ev
            /\ Added[1].i > Added[2].i]_vars

\* Two invocations have run: their four entries are in the history, the
\* newest first.
C21_Witness ==
    \E h \in Events :
        /\ BatchDone(h)
        /\ history = << Entry("model", "image", "content", h, 2),
                        Entry("user", "text", "request", h, 2),
                        Entry("model", "text", "content", h, 1),
                        Entry("user", "text", "request", h, 1) >>

\* C22: a frame captured while the channel is not ready is dropped, not
\* queued: no frame waits for a channel, and every frame that was sent was
\* sent once, on a channel that was ready when the frame was captured.
C22_FramesDroppedNotQueued ==
    /\ \A c \in Attempts : realtimePending[c] = <<>>
    /\ \A i \in 1..Len(realtimeSent) : realtimeSent[i].ready
    /\ \A i, j \in 1..Len(realtimeSent) : realtimeSent[i].n = realtimeSent[j].n => i = j

\* A step in which cleanup is called: by onclose, by the catch clause of an
\* attempt, or by any step that makes the first cleanup after a start.
CleanupStep ==
    \/ \E c \in Attempts : channel[c] # "closed" /\ channel'[c] = "closed"
    \/ \E a \in Attempts :
            pc[a] \in {"resumeIn", "resumeOut", "gum"} /\ pc'[a] = "done" /\ channel'[a] = "none"
    \/ ~cleanedUp /\ cleanedUp'

\* C23: immediately after a call of cleanup the playback cursor is 0, the
\* live set is empty, no speaking-poll timer is active, isSpeaking is false,
\* and the handles of the capture node, the output node, both audio contexts,
\* the microphone stream and the channel are null; what they held is released.
C23_AfterCleanup ==
    [][CleanupStep =>
            /\ nextStartTimeRef' = 0
            /\ audioSourcesRef' = {}
            /\ timers' = {}
            /\ speakingCheckIntervalRef' = NULL
            /\ isSpeaking' = FALSE
            /\ HandlesNull'
            /\ \A k \in audioSourcesRef : chunk'[k].src = "stopped"
            /\ inputAudioContextRef # NULL => inCtx'[inputAudioContextRef] = "closed"
            /\ outputAudioContextRef # NULL => outCtx'[outputAudioContextRef] = "closed"
            /\ streamRef # NULL => stream'[streamRef] = "stopped"
            /\ scriptProcessorRef # NULL => proc'[scriptProcessorRef] = "disconnected"]_vars

\* A session was closed while it was speaking: its scheduled source was
\* stopped and cursor, live set, timers and handles are clear.
C23_Witness ==
    /\ cleanedUp
    /\ HandlesNull
    /\ scheduled # <<>>
    /\ \E k \in Chunks : chunk[k].src = "stopped" /\ chunk[k].start + chunk[k].dur > 0
    /\ nextStartTimeRef = 0
    /\ timers = {}
    /\ ~isSpeaking

\* C24: at every moment at most one speaking-poll timer is active, and it is
\* the one the handle holds: a chunk scheduled while a timer runs cancels it
\* before it starts its own, whatever the interleaving of arrivals, decode
\* completions, timer firings and cleanup.
C24_OnePollTimer ==
    /\ Cardinality(timers) <= 1
    /\ timers = {speakingCheckIntervalRef} \ {NULL}

\* A second chunk was scheduled while the timer of the first was running (no
\* time has passed, and the first chunk is longer than the epsilon): only the
\* second timer is active.
C24_Witness ==
    /\ Len(scheduled) = 2
    /\ scheduled[1].ctx = scheduled[2].ctx
    /\ scheduled[1].dur > SPEAKING_EPSILON
    /\ clock[scheduled[1].ctx] = 0
    /\ isSpeaking
    /\ timers = {scheduled[2].k}

\* C25: isSpeaking never stays true forever when no further chunk arrives, a
\* failed decode included: whenever isSpeaking is true and no decode is in
\* flight, a poll timer is active that will clear it once the clock has caught
\* up with the cursor.
C25_SpeakingEnds ==
    (isSpeaking /\ \A k \in Chunks : chunk[k].st # "decoding") => timers # {}

\* getUserMedia of attempt a rejects with a permission denial in this step.
MicDenied(a) ==
    /\ pc[a] = "gum"
    /\ pc'[a] = "done"
    /\ stream'[a] = "none"
    /\ PermissionFault(fault')

\* C26: start() acquires the microphone before it opens the channel; when the
\* acquisition fails with a permission denial the channel of the attempt is
\* never opened, the state becomes Error, the AppError is the
\* microphone-access variant with exactly three steps, and the audio contexts
\* the attempt created are closed.
C26_MicBeforeChannel ==
    [][/\ \A a \in Attempts : channel'[a] # "none" => stream'[a] # "none"
       /\ \A a \in Attempts :
            MicDenied(a) =>
                /\ channel'[a] = "none"
                /\ sessionState' = "ERROR"
                /\ error'.title = TitlePermission
                /\ Len(error'.steps) = 3
                /\ inCtx'[a] = "closed"
                /\ outCtx'[a] = "closed"]_vars

\* The request entry of an invocation is appended in this step: its model
\* call is issued.
Requests(h, n) ==
    /\ Len(history') > Len(history)
    /\ history'[1] = Entry("user", "text", "request", h, n)

\* C27: for a successful generateContent or generateImage invocation the
\* steps come in this order: isThinking true, the request entry appended, the
\* operation executed, the content entry appended, the one response with the
\* invocation's id sent, isThinking false; no response is sent before the
\* content entry is in the history.
C27_InvocationOrder ==
    [][\A h \in Events :
        /\ \A n \in 1..Len(calls'[h].batch) : Requests(h, n) => isThinking'
        /\ \A o \in {"text", "code", "image"} :
                SettleStep(h, o) =>
                    LET i == calls[h].idx
                    IN  /\ Entry("user", "text", "request", h, i) \in Entries(history)
                        /\ Entry("model", o, "content", h, i) \notin Entries(history)
                        /\ Entry("model", o, "content", h, i) \in Entries(history')
                        /\ \A k \in 1..Len(sent) : sent[k].id # <<h, i>>
                        /\ \A k \in Attempts : \A j \in 1..Len(pending[k]) :
                                pending[k][j].id # <<h, i>>
                        /\ ChannelKept(h) => Cardinality({k \in 1..Len(sent') :
                                                            sent'[k].id = <<h, i>>}) = 1
                        /\ calls'[h].idx > Len(calls[h].batch) => ~isThinking']_vars

\* A startSession call passes its guard and begins an attempt in this step.
StartPassStep == nAttempts' = nAttempts + 1 /\ sessionState' = "CONNECTING"

\* A channel callback onopen or onclose runs in this step.
OpenOrCloseStep ==
    \E c \in Attempts : channel'[c] # channel[c] /\ channel'[c] \in {"open", "closed"}

\* C28: the held AppError becomes none only through clearError() or through
\* a start() that passes the guard; a start() the guard rejects, a channel
\* open, a channel close and the cleanup they call leave it as it is.
C28_ErrorHeld ==
    [][/\ (error # NoError /\ error' = NoError) => (ClearErrorStep \/ StartPassStep)
       /\ (RetryStep /\ ~StartPasses(retryTimer)) => error' = error
       /\ OpenOrCloseStep => error' = error]_vars

\* The error of a transport failure is still held after the channel was
\* closed and cleanup has run.
C28_Witness ==
    /\ error = DroppedError
    /\ cleanedUp
    /\ HandlesNull
    /\ \E c \in Attempts : channel[c] = "closed"

\* C29: within a session the playback cursor never decreases; it is lowered
\* only by the reset to 0, a session starts with it at 0, and no other event
\* (the scheduling of a chunk, a timer firing, a channel error) lowers it.
C29_CursorMonotone ==
    [][/\ nextStartTimeRef' < nextStartTimeRef => (CleanupStep /\ nextStartTimeRef' = 0)
       /\ StartPassStep => nextStartTimeRef' = 0]_vars

\* C30: the state becomes Connected only through the onopen callback of the
\* current attempt while the state is Connecting, never from Idle or Error,
\* and the capture node is wired in that same step; no captured frame is sent
\* on a channel before its onopen.
C30_ConnectedOnlyOnOpen ==
    [][/\ (sessionState # "CONNECTED" /\ sessionState' = "CONNECTED") =>
            /\ sessionState = "CONNECTING"
            /\ \E c \in Attempts :
                    /\ channel[c] = "connecting"
                    /\ channel'[c] = "open"
                    /\ sessionPromiseRef = c
                    /\ scriptProcessorRef' = c
                    /\ proc'[c] = "connected"
       /\ \A i \in 1..Len(realtimeSent') :
            channel'[realtimeSent'[i].ch] \notin {"none", "connecting"}]_vars

\* onclose or onerror of channel c runs in this step, after a later attempt
\* has begun.
StaleCallback(c) ==
    /\ c < nAttempts
    /\ channel'[c] # channel[c]
    /\ channel'[c] \in {"closed", "errored"}

\* C31: a close or error callback of an earlier attempt that arrives after a
\* later start() has begun releases none of the later attempt's resources,
\* does not change the state, and does not make the later attempt's onopen be
\* ignored.
C31_StaleCallbackHarmless ==
    [][\A c \in Attempts :
            StaleCallback(c) =>
                /\ UNCHANGED <<sessionState, isClosedRef>>
                /\ \A a \in (c + 1)..nAttempts :
                        /\ inCtx'[a] = inCtx[a]
                        /\ outCtx'[a] = outCtx[a]
                        /\ stream'[a] = stream[a]
                        /\ proc'[a] = proc[a]
                        /\ sessionPromiseRef = a => sessionPromiseRef' = a]_vars

\* C32: a tool response is sent only on the channel of the attempt that
\* delivered the invocation: a response of an invocation that completes after
\* its session was cleaned up and a new one started is neither sent on the new
\* session's channel nor queued for it.
C32_ResponseOnOwnChannel ==
    /\ \A n \in 1..Len(sent) : sent[n].ch = calls[sent[n].id[1]].ch
    /\ \A c \in Attempts : \A n \in 1..Len(pending[c]) :
            pending[c][n].ch = calls[pending[c][n].id[1]].ch

\* The close event of a channel that has reported an error arrives in this
\* step.
CloseAfterError(c) == channel[c] = "errored" /\ channel'[c] = "closed"

\* C33: once a channel error has put the session in state Error, the close
\* event of that channel, however soon it follows (before the next render has
\* copied the state into sessionStateRef included), leaves the state at Error
\* and never makes it Idle; the state stays Error until the next start() that
\* passes the guard.
C33_ErrorSurvivesClose ==
    [][sessionState = "ERROR" =>
            /\ \A c \in Attempts : CloseAfterError(c) => sessionState' = "ERROR"
            /\ sessionState' # "ERROR" => StartPassStep]_vars

\* No channel has reported an error or been closed: every chunk that was
\* scheduled belongs to the session that is current.
NoTeardown == \A c \in Attempts : channel[c] \in {"none", "connecting", "open"}

\* C34: whenever scheduled audio of the current session is still outstanding,
\* that is the clock of its output context is more than the epsilon behind
\* the cursor, isSpeaking is true (a chunk that arrived while the poll of the
\* previous burst was about to fire included).
C34_SpeakingWhileAudioOutstanding ==
    (/\ NoTeardown
     /\ outputAudioContextRef # NULL
     /\ clock[outputAudioContextRef] < nextStartTimeRef - SPEAKING_EPSILON) => isSpeaking

\* C35: from the end of a cleanup until the next start() that passes the
\* guard, the live set stays empty, the cursor stays 0 and no playback source
\* is started, whatever completes in that interval (a decode that was in
\* flight, a timer firing, a tool invocation), and no completion raises.
C35_QuietAfterCleanup ==
    [][(cleanedUp /\ cleanedUp') =>
            /\ audioSourcesRef' = {}
            /\ nextStartTimeRef' = 0
            /\ \A k \in Chunks : chunk'[k].src = "started" => chunk[k].src = "started"
            /\ raised' = raised]_vars

====
